---- MODULE Spec2Model ----
(***************************************************************************)
(* Model of the schedule mutation engine of the Bulk Production Scheduler  *)
(* (src/app.py): the initial scheduler, the repair pass, Delay and Swap,   *)
(* the intent validator and the command pipeline that drives them.         *)
(*                                                                         *)
(* Time is counted in whole seconds since base_start (2025-11-03 06:00).   *)
(* A schedule is the DataFrame: a sequence of rows, the row's position     *)
(* being its index label.                                                  *)
(***************************************************************************)
EXTENDS Integers, Sequences, FiniteSets, TLC

VARIABLES
    orders,              \* orders_df, the loaded order records (line 127)
    base_schedule,       \* base_schedule (line 127)
    schedule_df,         \* st.session_state.schedule_df
    cmd_log,             \* st.session_state.cmd_log
    last_processed_cmd,  \* st.session_state.last_processed_cmd
    last_audio_fp,       \* st.session_state.last_audio_fp (0 for None)
    last_transcript,     \* st.session_state.last_transcript
    prompt_text,         \* what the text input holds (key prompt_text)
    rec,                 \* what the recorder widget holds (key voice_mic)
    processed,           \* the commands processed since the last Reset
    last_run,            \* what the last run of _process_and_apply did
    prev_run,            \* last_run before the last step
    n_cmds               \* number of commands processed so far

vars == <<orders, base_schedule, schedule_df, cmd_log, last_processed_cmd,
          last_audio_fp, last_transcript, prompt_text, rec, processed,
          last_run, prev_run, n_cmds>>

--------------------------------------------------------------------------
(* Bounds of the exploration *)

MaxCmds == 2

--------------------------------------------------------------------------
(* Time units *)

SecPerMin == 60
SecPerHour == 3600
SecPerDay == 86400

\* Python's None, as the value of a string-typed field
NoneId == "<None>"
\* a key that the payload dict does not hold
AbsentId == "<absent>"

--------------------------------------------------------------------------
(* Small helpers on sets and sequences *)

Max2(a, b) == IF a >= b THEN a ELSE b

SetMin(S) == CHOOSE x \in S : \A y \in S : x <= y

Range(f) == {f[i] : i \in DOMAIN f}

--------------------------------------------------------------------------
(* DATA LOADING: load_and_generate_data *)

\* time_percentages, in thousandths
time_percentages ==
    [VRAC_SHAMPOO_BASE     |-> [MIX |-> 100, TRF |-> 90,  FILL |-> 130, FIN |-> 80],
     VRAC_CONDITIONER_BASE |-> [MIX |-> 100, TRF |-> 50,  FILL |-> 100, FIN |-> 50],
     VRAC_HAIR_MASK        |-> [MIX |-> 130, TRF |-> 110, FILL |-> 100, FIN |-> 70]]

line_map == [MIX |-> "MIX_1", TRF |-> "TRANS_1", FILL |-> "FILL_1", FIN |-> "FIN_1"]

Machines == {line_map[k] : k \in DOMAIN line_map}

base_start == 0

\* time_percentages.get(sku, time_percentages['VRAC_SHAMPOO_BASE'])
percentages(sku) ==
    IF sku \in DOMAIN time_percentages
    THEN time_percentages[sku]
    ELSE time_percentages["VRAC_SHAMPOO_BASE"]

\* the (op_type, time_pct, seq) list of one order
operations(sku) ==
    << [op_type |-> "MIX",  time_pct |-> percentages(sku)["MIX"],  seq |-> 1],
       [op_type |-> "TRF",  time_pct |-> percentages(sku)["TRF"],  seq |-> 2],
       [op_type |-> "FILL", time_pct |-> percentages(sku)["FILL"], seq |-> 3],
       [op_type |-> "FIN",  time_pct |-> percentages(sku)["FIN"],  seq |-> 4] >>

\* timedelta(hours = qty / 300.0 * time_pct) in seconds:
\* qty / 300 * (pct / 1000) * 3600 = qty * pct * 12 / 1000
duration_seconds(qty, time_pct) == (qty * time_pct * 12) \div 1000

\* order_id strings compare as their numbers do (three digits, zero padded)
IdRank(oid) ==
    CASE oid = "ORD-001" -> 1
      [] oid = "ORD-002" -> 2
      [] oid = "ORD-003" -> 3
      [] OTHER -> 999

\* the sort key without the order_id tie-break
OrderBefore_DueOnly(a, b) == a.due_date < b.due_date

\* the sort key of orders_df.sort_values(['due_date', 'order_id'])
OrderBefore(a, b) ==
    \/ a.due_date < b.due_date
    \/ a.due_date = b.due_date /\ IdRank(a.order_id) < IdRank(b.order_id)

RECURSIVE SortOrdersFrom(_, _)
SortOrdersFrom(df, left) ==
    IF left = {} THEN << >>
    ELSE LET i == CHOOSE i \in left :
                      \A j \in left \ {i} :
                          \/ OrderBefore(df[i], df[j])
                          \/ ~OrderBefore(df[j], df[i]) /\ i < j
         IN  <<df[i]>> \o SortOrdersFrom(df, left \ {i})

orders_sorted(df) == SortOrdersFrom(df, DOMAIN df)

\* the inner loop with every operation started when its machine is free
RECURSIVE PlaceOperations_MachineOnly(_, _, _)
PlaceOperations_MachineOnly(order, k, acc) ==
    IF k > Len(operations(order.sku_id)) THEN acc
    ELSE
      LET op       == operations(order.sku_id)[k]
          machine  == line_map[op.op_type]
          op_start == acc.machine_timeline[machine]
          op_end   == op_start + duration_seconds(order.qty_kg, op.time_pct)
          row      == [order_id   |-> order.order_id,
                       operation  |-> op.op_type,
                       sequence   |-> op.seq,
                       machine    |-> machine,
                       start      |-> op_start,
                       end        |-> op_end,
                       due_date   |-> order.due_date,
                       wheel_type |-> order.sku_id]
      IN  PlaceOperations_MachineOnly(order, k + 1,
              [rows             |-> Append(acc.rows, row),
               machine_timeline |-> [acc.machine_timeline EXCEPT ![machine] = op_end],
               prev_end         |-> op_end,
               first            |-> FALSE])

\* the inner loop (lines 95-121) over the operations of one order, from the k-th;
\* acc = [rows, machine_timeline, prev_end, first], first being
\* "order_start_time is None"
RECURSIVE PlaceOperations(_, _, _)
PlaceOperations(order, k, acc) ==
    IF k > Len(operations(order.sku_id)) THEN acc
    ELSE
      LET op       == operations(order.sku_id)[k]
          machine  == line_map[op.op_type]
          op_start == IF acc.first
                      THEN acc.machine_timeline[machine]
                      ELSE Max2(acc.prev_end, acc.machine_timeline[machine])
          op_end   == op_start + duration_seconds(order.qty_kg, op.time_pct)
          row      == [order_id   |-> order.order_id,
                       operation  |-> op.op_type,
                       sequence   |-> op.seq,
                       machine    |-> machine,
                       start      |-> op_start,
                       end        |-> op_end,
                       due_date   |-> order.due_date,
                       wheel_type |-> order.sku_id]
      IN  PlaceOperations(order, k + 1,
              [rows             |-> Append(acc.rows, row),
               machine_timeline |-> [acc.machine_timeline EXCEPT ![machine] = op_end],
               prev_end         |-> op_end,
               first            |-> FALSE])

\* the outer loop with order_start_time and prev_end kept from the order before
RECURSIVE PlaceOrders_KeepPrev(_, _, _)
PlaceOrders_KeepPrev(sorted, i, acc) ==
    IF i > Len(sorted) THEN acc
    ELSE PlaceOrders_KeepPrev(sorted, i + 1,
             PlaceOperations(sorted[i], 1, acc))

\* the outer loop (lines 76-121) over the sorted orders, from the i-th
RECURSIVE PlaceOrders(_, _, _)
PlaceOrders(sorted, i, acc) ==
    IF i > Len(sorted) THEN acc
    ELSE PlaceOrders(sorted, i + 1,
             PlaceOperations(sorted[i], 1,
                 [acc EXCEPT !.prev_end = 0, !.first = TRUE]))

\* schedule_df as load_and_generate_data returns it
generate_schedule(df) ==
    PlaceOrders(orders_sorted(df), 1,
        [rows             |-> << >>,
         machine_timeline |-> [m \in Machines |-> base_start],
         prev_end         |-> 0,
         first            |-> TRUE]).rows

--------------------------------------------------------------------------
(* Values of the days / hours / minutes fields of an intent payload *)

Num(n)    == [t |-> "num", v |-> n]       \* a number
NumStr(n) == [t |-> "str", v |-> n]       \* a string that float() accepts
BadStr    == [t |-> "bad", v |-> 0]       \* a string that float() refuses
NoneVal   == [t |-> "none", v |-> 0]      \* None
AbsentVal == [t |-> "absent", v |-> 0]    \* the key is not in the dict

\* payload.get(k): None when the key is absent
GetId(x) == IF x = AbsentId THEN NoneId ELSE x

\* payload.get(k, 0)
GetOrZero(x) == IF x.t = "absent" THEN Num(0) ELSE x

\* float(x or 0)
FloatOrZero(x) == IF x.t \in {"num", "str"} THEN x.v ELSE 0

\* bool(x) of payload.get(k)
Truthy(x) == x.t \in {"str", "bad"} \/ (x.t = "num" /\ x.v # 0)

--------------------------------------------------------------------------
(* APPLY FUNCTIONS *)

OrderRows(s, order_id) == {i \in DOMAIN s : s[i].order_id = order_id}

MachineRows(s, m) == {i \in DOMAIN s : s[i].machine = m}

\* position of rows in block.sort_values(["start", "end"]); equal keys keep
\* their index order
RowBefore(s, i, j) ==
    \/ s[i].start < s[j].start
    \/ s[i].start = s[j].start /\ s[i].end < s[j].end
    \/ s[i].start = s[j].start /\ s[i].end = s[j].end /\ i < j

\* block = s.loc[block_idx].sort_values(["start", "end"]).copy(): the sorted
\* copies of the rows, each with its index label
RECURSIVE SortBlock(_, _)
SortBlock(s, left) ==
    IF left = {} THEN << >>
    ELSE LET i == CHOOSE i \in left : \A j \in left \ {i} : RowBefore(s, i, j)
         IN  <<[idx |-> i, row |-> s[i]]>> \o SortBlock(s, left \ {i})

\* the walk with the test on last_end turned round: overlaps are left alone
RECURSIVE RepackWalk_Flipped(_, _, _, _)
RepackWalk_Flipped(s, block, k, last_end) ==
    IF k > Len(block) THEN s
    ELSE
      LET idx == block[k].idx
          row == block[k].row
          dur == row.end - row.start
          s2  == IF last_end.set /\ row.start > last_end.v
                 THEN [s EXCEPT ![idx].start = last_end.v,
                                ![idx].end   = last_end.v + dur]
                 ELSE s
      IN  RepackWalk_Flipped(s2, block, k + 1, [set |-> TRUE, v |-> s2[idx].end])

\* the walk moving the start of an overlapping row and leaving its end
RECURSIVE RepackWalk_KeepEnd(_, _, _, _)
RepackWalk_KeepEnd(s, block, k, last_end) ==
    IF k > Len(block) THEN s
    ELSE
      LET idx == block[k].idx
          row == block[k].row
          s2  == IF last_end.set /\ row.start < last_end.v
                 THEN [s EXCEPT ![idx].start = last_end.v]
                 ELSE s
      IN  RepackWalk_KeepEnd(s2, block, k + 1,
                             [set |-> TRUE, v |-> Max2(s2[idx].end, last_end.v)])

\* the walk closing every gap: a row is put at last_end whenever it does not
\* start there
RECURSIVE RepackWalk_Compact(_, _, _, _)
RepackWalk_Compact(s, block, k, last_end) ==
    IF k > Len(block) THEN s
    ELSE
      LET idx == block[k].idx
          row == block[k].row
          dur == row.end - row.start
          s2  == IF last_end.set /\ row.start # last_end.v
                 THEN [s EXCEPT ![idx].start = last_end.v,
                                ![idx].end   = last_end.v + dur]
                 ELSE s
      IN  RepackWalk_Compact(s2, block, k + 1, [set |-> TRUE, v |-> s2[idx].end])

\* the walk of lines 479-485 from the k-th row of block;
\* last_end = [set, v], set = FALSE being None
RECURSIVE RepackWalk(_, _, _, _)
RepackWalk(s, block, k, last_end) ==
    IF k > Len(block) THEN s
    ELSE
      LET idx == block[k].idx
          row == block[k].row
          dur == row.end - row.start
          s2  == IF last_end.set /\ row.start < last_end.v
                 THEN [s EXCEPT ![idx].start = last_end.v,
                                ![idx].end   = last_end.v + dur]
                 ELSE s
      IN  RepackWalk(s2, block, k + 1, [set |-> TRUE, v |-> s2[idx].end])

\* the machines of every row, touched or not
RECURSIVE UniqueMachines_All(_, _, _, _)
UniqueMachines_All(s, touched_orders, i, acc) ==
    IF i > Len(s) THEN acc
    ELSE IF s[i].machine \notin Range(acc)
         THEN UniqueMachines_All(s, touched_orders, i + 1, Append(acc, s[i].machine))
         ELSE UniqueMachines_All(s, touched_orders, i + 1, acc)

\* s.loc[s["order_id"].isin(touched_orders), "machine"].unique().tolist():
\* the machines of the touched rows, in order of first appearance
RECURSIVE UniqueMachines(_, _, _, _)
UniqueMachines(s, touched_orders, i, acc) ==
    IF i > Len(s) THEN acc
    ELSE IF s[i].order_id \in touched_orders /\ s[i].machine \notin Range(acc)
         THEN UniqueMachines(s, touched_orders, i + 1, Append(acc, s[i].machine))
         ELSE UniqueMachines(s, touched_orders, i + 1, acc)

\* the loop over machines (lines 476-485), from the k-th machine
RECURSIVE RepackMachines(_, _, _)
RepackMachines(s, machines, k) ==
    IF k > Len(machines) THEN s
    ELSE RepackMachines(
             RepackWalk(s, SortBlock(s, MachineRows(s, machines[k])), 1,
                        [set |-> FALSE, v |-> 0]),
             machines, k + 1)

_repack_touched_machines(s, touched_orders) ==
    RepackMachines(s, UniqueMachines(s, touched_orders, 1, << >>), 1)

\* minutes taken for seconds
timedelta_MinutesAsSeconds(days, hours, minutes) ==
    days * SecPerDay + hours * SecPerHour + minutes

\* timedelta with the hours left out
timedelta_HoursDropped(days, hours, minutes) ==
    days * SecPerDay + minutes * SecPerMin

\* timedelta(days=.., hours=.., minutes=..) in seconds
timedelta(days, hours, minutes) ==
    days * SecPerDay + hours * SecPerHour + minutes * SecPerMin

\* the shift applied to every row, whatever its order
ShiftOrder_EveryRow(s, order_id, delta) ==
    [i \in DOMAIN s |->
        LET dur == s[i].end - s[i].start
        IN  [s[i] EXCEPT !.start = s[i].start + delta,
                         !.end   = (s[i].start + delta) + dur]]

\* lines 497-502: every row of the order moves by delta, its duration kept
ShiftOrder(s, order_id, delta) ==
    [i \in DOMAIN s |->
        IF s[i].order_id = order_id
        THEN LET dur == s[i].end - s[i].start
             IN  [s[i] EXCEPT !.start = s[i].start + delta,
                              !.end   = (s[i].start + delta) + dur]
        ELSE s[i]]

\* lines 497-504 for a delta already computed
DelayBy(s, order_id, delta) ==
    _repack_touched_machines(ShiftOrder(s, order_id, delta), {order_id})

\* apply_delay writing to the object it was passed
apply_delay_argument_InPlace(s, order_id, days, hours, minutes) ==
    DelayBy(s, order_id,
            timedelta(FloatOrZero(days), FloatOrZero(hours), FloatOrZero(minutes)))

\* the rows that the object passed as schedule_df holds when apply_delay
\* returns: s = schedule_df.copy() (line 490) is a new object, and lines
\* 497-503 and the repair pass write to s only
apply_delay_argument(s, order_id, days, hours, minutes) == s

\* days, hours, minutes are payload values (a number or None)
apply_delay(s, order_id, days, hours, minutes) ==
    DelayBy(s, order_id,
            timedelta(FloatOrZero(days), FloatOrZero(hours), FloatOrZero(minutes)))

\* s.loc[s["order_id"] == a, "start"].min()
MinStart(s, order_id) == SetMin({s[i].start : i \in OrderRows(s, order_id)})

\* the .days and .seconds attributes of a Timedelta of d seconds
td_days(d) == d \div SecPerDay
td_seconds(d) == d % SecPerDay

\* the timedelta that apply_swap hands to apply_delay for a difference d
\* (lines 515-517 and 521-523)
SwapDelta(d) ==
    timedelta(td_days(d),
              td_seconds(d) \div SecPerHour,
              (td_seconds(d) % SecPerHour) \div SecPerMin)

\* min() of no rows is NaT, and timedelta(days=nan) raises ValueError
apply_swap_raises(s, a, b) == OrderRows(s, a) = {} \/ OrderRows(s, b) = {}

\* the rows that the object passed as schedule_df holds when apply_swap
\* returns: s = schedule_df.copy() (line 508) is a new object, and the two
\* apply_delay calls are handed s and s1, never schedule_df
apply_swap_argument(s, a, b) == s

\* apply_swap returning after the first of its two delays
apply_swap_FirstDelayOnly(s, a, b) ==
    LET a0 == MinStart(s, a)
        b0 == MinStart(s, b)
        da == b0 - a0
    IN  apply_delay(s, a, Num(td_days(da)),
                    Num(td_seconds(da) \div SecPerHour),
                    Num((td_seconds(da) % SecPerHour) \div SecPerMin))

apply_swap(s, a, b) ==
    LET a0 == MinStart(s, a)
        b0 == MinStart(s, b)
        da == b0 - a0
        db == a0 - b0
        s1 == apply_delay(s, a, Num(td_days(da)),
                          Num(td_seconds(da) \div SecPerHour),
                          Num((td_seconds(da) % SecPerHour) \div SecPerMin))
    IN  apply_delay(s1, b, Num(td_days(db)),
                    Num(td_seconds(db) \div SecPerHour),
                    Num((td_seconds(db) % SecPerHour) \div SecPerMin))

--------------------------------------------------------------------------
(* INTENT VALIDATION: validate_intent *)

LoadedIds(orders_df) == {orders_df[i].order_id : i \in DOMAIN orders_df}

\* oid and (orders_df["order_id"] == oid).any()
order_exists(oid, orders_df) ==
    /\ oid # NoneId
    /\ oid # ""
    /\ oid \in LoadedIds(orders_df)

\* payload[k] = float(payload[k]) for a key that is present and not None
CoerceFails(x) == x.t = "bad"
\* the value left as it came
Coerce_Keep(x) == x
Coerce(x) == IF x.t \in {"num", "str"} THEN Num(x.v) ELSE x

\* the loop of lines 459-464: the payload as it is left (keys before the
\* first failure are rewritten), and the key that failed, if any
CoerceDurations(payload) ==
    IF CoerceFails(payload.days)
    THEN [payload |-> payload, failed |-> "days"]
    ELSE LET p1 == [payload EXCEPT !.days = Coerce(payload.days)]
         IN  IF CoerceFails(p1.hours)
             THEN [payload |-> p1, failed |-> "hours"]
             ELSE LET p2 == [p1 EXCEPT !.hours = Coerce(p1.hours)]
                  IN  IF CoerceFails(p2.minutes)
                      THEN [payload |-> p2, failed |-> "minutes"]
                      ELSE [payload |-> [p2 EXCEPT !.minutes = Coerce(p2.minutes)],
                            failed  |-> ""]

Result(ok, msg, payload) == [ok |-> ok, msg |-> msg, payload |-> payload]

\* validate_intent without the lookup of order_id_2
validate_intent_SkipSecondId(payload, orders_df) ==
    LET intent == payload.intent
        oid    == GetId(payload.order_id)
        oid2   == GetId(payload.order_id_2)
    IN
    IF intent \notin {"delay_order", "swap_orders"}
    THEN Result(FALSE, <<"Unsupported intent">>, payload)
    ELSE IF ~order_exists(oid, orders_df)
    THEN Result(FALSE, <<"Unknown order: ", oid>>, payload)
    ELSE IF intent = "swap_orders"
    THEN IF oid2 = oid
         THEN Result(FALSE, <<"Cannot swap same order">>, payload)
         ELSE Result(TRUE, <<"ok">>, payload)
    ELSE LET c == CoerceDurations(payload)
         IN  IF c.failed # ""
             THEN Result(FALSE, <<c.failed, " must be numeric">>, c.payload)
             ELSE IF ~(\/ Truthy(c.payload.days)
                       \/ Truthy(c.payload.hours)
                       \/ Truthy(c.payload.minutes))
             THEN Result(FALSE, <<"Need duration (days/hours/minutes)">>, c.payload)
             ELSE Result(TRUE, <<"ok">>, c.payload)

\* validate_intent without the comparison of the two ids
validate_intent_NoSameCheck(payload, orders_df) ==
    LET intent == payload.intent
        oid    == GetId(payload.order_id)
        oid2   == GetId(payload.order_id_2)
    IN
    IF intent \notin {"delay_order", "swap_orders"}
    THEN Result(FALSE, <<"Unsupported intent">>, payload)
    ELSE IF ~order_exists(oid, orders_df)
    THEN Result(FALSE, <<"Unknown order: ", oid>>, payload)
    ELSE IF intent = "swap_orders"
    THEN IF ~order_exists(oid2, orders_df)
         THEN Result(FALSE, <<"Unknown order: ", oid2>>, payload)
         ELSE Result(TRUE, <<"ok">>, payload)
    ELSE LET c == CoerceDurations(payload)
         IN  IF c.failed # ""
             THEN Result(FALSE, <<c.failed, " must be numeric">>, c.payload)
             ELSE IF ~(\/ Truthy(c.payload.days)
                       \/ Truthy(c.payload.hours)
                       \/ Truthy(c.payload.minutes))
             THEN Result(FALSE, <<"Need duration (days/hours/minutes)">>, c.payload)
             ELSE Result(TRUE, <<"ok">>, c.payload)

\* the (ok, msg) it returns, and the payload dict as it leaves it
validate_intent(payload, orders_df) ==
    LET intent == payload.intent
        oid    == GetId(payload.order_id)
        oid2   == GetId(payload.order_id_2)
    IN
    IF intent \notin {"delay_order", "swap_orders"}
    THEN Result(FALSE, <<"Unsupported intent">>, payload)
    ELSE IF ~order_exists(oid, orders_df)
    THEN Result(FALSE, <<"Unknown order: ", oid>>, payload)
    ELSE IF intent = "swap_orders"
    THEN IF ~order_exists(oid2, orders_df)
         THEN Result(FALSE, <<"Unknown order: ", oid2>>, payload)
         ELSE IF oid2 = oid
         THEN Result(FALSE, <<"Cannot swap same order">>, payload)
         ELSE Result(TRUE, <<"ok">>, payload)
    ELSE LET c == CoerceDurations(payload)
         IN  IF c.failed # ""
             THEN Result(FALSE, <<c.failed, " must be numeric">>, c.payload)
             ELSE IF ~(\/ Truthy(c.payload.days)
                       \/ Truthy(c.payload.hours)
                       \/ Truthy(c.payload.minutes))
             THEN Result(FALSE, <<"Need duration (days/hours/minutes)">>, c.payload)
             ELSE Result(TRUE, <<"ok">>, c.payload)

--------------------------------------------------------------------------
(* NLP: normalize_order_references, _regex_fallback, extract_intent *)

\* A command text is kept as what the extractor reads in it:
\*   verb    the keyword it holds: "delay", "advance", "swap", or "" for none
\*   ref     the first order reference, ref2 the second one (OrderRef)
\*   dur     <<days, hours, minutes>> that _parse_duration_chunks adds up
\*   model   what the call of the external model yields for this text
\* An order reference is kept as the way it is written:
\*   form    "order" (order 52), "number" (order number 52), "hash"
\*           (order #52), "ord" (the token ORD-052), "bare" (52), "" (none)
\*   digits  the digits written, most significant first, or << >>
\*   word    the word written in place of digits, or ""
OrderRef(form, digits, word) == [form |-> form, digits |-> digits, word |-> word]
NoRef == OrderRef("", << >>, "")

Text(verb, ref, ref2, dur, model) ==
    [verb |-> verb, ref |-> ref, ref2 |-> ref2, dur |-> dur, model |-> model]

\* the words of NUM_WORDS, "zero" first
NumWordList ==
    << "zero", "one", "two", "three", "four", "five", "six", "seven", "eight",
       "nine", "ten", "eleven", "twelve", "thirteen", "fourteen", "fifteen",
       "sixteen", "seventeen", "eighteen", "nineteen", "twenty" >>

NUM_WORDS ==
    [w \in Range(NumWordList) |->
        (CHOOSE i \in DOMAIN NumWordList : NumWordList[i] = w) - 1]

\* int(raw) of a string of digits
RECURSIVE IntOf(_)
IntOf(digits) ==
    IF digits = << >> THEN 0
    ELSE 10 * IntOf(SubSeq(digits, 1, Len(digits) - 1)) + digits[Len(digits)]

\* the digits of f"{n:03d}", n below 1000
Pad3(n) == << n \div 100, (n \div 10) % 10, n % 10 >>

\* f"ORD-{n:03d}"
OrdToken(n) == OrderRef("ord", Pad3(n), "")

\* repl with the range taken one too far
ReplOrderRef_Upto101(r) ==
    LET n == IF r.digits # << >> THEN IntOf(r.digits)
             ELSE IF r.word \in DOMAIN NUM_WORDS THEN NUM_WORDS[r.word]
             ELSE 0
    IN  IF n < 1 \/ n > 101 THEN r ELSE OrdToken(n)

\* repl (lines 318-329) on a match of ORDER_REF_RE: the num group is the
\* digits (\d{1,3} up to three of them, \w+ a longer run) or the word
ReplOrderRef(r) ==
    LET n == IF r.digits # << >> THEN IntOf(r.digits)
             ELSE IF r.word \in DOMAIN NUM_WORDS THEN NUM_WORDS[r.word]
             ELSE 0
    IN  IF n < 1 \/ n > 100 THEN r ELSE OrdToken(n)

\* repl_hash (lines 333-340) on a match of \border\s*#(\d{1,3})\b, which
\* takes one to three digits followed by a word boundary
ReplHash(r) ==
    IF r.digits = << >> \/ Len(r.digits) > 3 THEN r
    ELSE LET n == IntOf(r.digits)
         IN  IF n < 1 \/ n > 100 THEN r ELSE OrdToken(n)

\* what the two substitutions of normalize_order_references make of one
\* reference. ORDER_REF_RE matches "order" and "order number" followed by
\* digits or a word; in "order #5" it matches only the word "order" itself
\* (num = "er") and leaves it, and it does not match the token ORD-052
NormalizeRef(r) ==
    IF r.form \in {"order", "number"} THEN ReplOrderRef(r)
    ELSE IF r.form = "hash" THEN ReplHash(r)
    ELSE r

normalize_order_references(text) ==
    [text EXCEPT !.ref = NormalizeRef(@), !.ref2 = NormalizeRef(@)]

\* m.group(2).upper(): the order id a token ORD-ddd names. The ids beyond
\* the three that the order files hold stand for one id that is not loaded.
OrdName(r) ==
    CASE r.digits = <<0, 0, 1>> -> "ORD-001"
      [] r.digits = <<0, 0, 2>> -> "ORD-002"
      [] r.digits = <<0, 0, 3>> -> "ORD-003"
      [] OTHER -> "ORD-999"

UnknownIntent ==
    [intent |-> "unknown", order_id |-> NoneId, order_id_2 |-> NoneId,
     days |-> Num(0), hours |-> Num(0), minutes |-> Num(0)]

\* the pattern stage, on the normalized text: a swap needs two ORD tokens,
\* a delay one ORD token and a duration that is not all zero
_regex_fallback(text) ==
    LET delay_sign == IF text.verb = "advance" THEN 0 - 1 ELSE 1
    IN
    IF text.verb = "swap" /\ text.ref.form = "ord" /\ text.ref2.form = "ord"
    THEN [intent |-> "swap_orders", order_id |-> OrdName(text.ref),
          order_id_2 |-> OrdName(text.ref2),
          days |-> AbsentVal, hours |-> AbsentVal, minutes |-> AbsentVal]
    ELSE IF /\ text.verb \in {"delay", "advance"}
            /\ text.ref.form = "ord"
            /\ \E k \in 1..3 : text.dur[k] # 0
    THEN [intent |-> "delay_order", order_id |-> OrdName(text.ref),
          order_id_2 |-> AbsentId,
          days    |-> Num(delay_sign * text.dur[1]),
          hours   |-> Num(delay_sign * text.dur[2]),
          minutes |-> Num(delay_sign * text.dur[3])]
    ELSE [UnknownIntent EXCEPT !.order_id = AbsentId, !.order_id_2 = AbsentId,
                               !.days = AbsentVal, !.hours = AbsentVal,
                               !.minutes = AbsentVal]

\* what the call of the external model yields: a JSON object (data, with
\* the keys it holds), or no usable answer (the call raised, timed out, or
\* the content is not a JSON object)
Json(data) == [kind |-> "json", data |-> data]
ModelFails(kind) == [kind |-> kind, data |-> UnknownIntent]

\* data.setdefault(k, default) for the six keys (lines 146-151)
SetDefaults(data) ==
    [intent     |-> IF data.intent = "<absent>" THEN "unknown" ELSE data.intent,
     order_id   |-> GetId(data.order_id),
     order_id_2 |-> GetId(data.order_id_2),
     days       |-> GetOrZero(data.days),
     hours      |-> GetOrZero(data.hours),
     minutes    |-> GetOrZero(data.minutes)]

\* ai_extract_intent with a failed call answered by a delay of ORD-001
ai_extract_intent_Guess(model) ==
    IF model.kind = "json" THEN SetDefaults(model.data)
    ELSE [UnknownIntent EXCEPT !.intent = "delay_order",
                               !.order_id = "ORD-001", !.minutes = Num(1)]

\* nlp_extractor.ai_extract_intent: the except branch returns the unknown
\* intent
ai_extract_intent(model) ==
    IF model.kind = "json" THEN SetDefaults(model.data) ELSE UnknownIntent

extract_intent(normalized_text) ==
    LET payload == _regex_fallback(normalized_text)
    IN  IF payload.intent = "unknown"
        THEN ai_extract_intent(normalized_text.model)
        ELSE payload

--------------------------------------------------------------------------
(* PROCESS COMMAND: _process_and_apply *)

\* x < 0 for a payload value: None < 0 raises TypeError
LtZeroRaises(x) == x.t = "none"
LtZero(x) == x.t = "num" /\ x.v < 0

\* lines 711-713: the or-chain stops at the first negative field, and raises
\* at a None field it reaches
DirectionRaises(payload) ==
    LET d == GetOrZero(payload.days)
        h == GetOrZero(payload.hours)
        m == GetOrZero(payload.minutes)
    IN  \/ LtZeroRaises(d)
        \/ ~LtZero(d) /\ LtZeroRaises(h)
        \/ ~LtZero(d) /\ ~LtZero(h) /\ LtZeroRaises(m)

\* st.session_state.cmd_log[-50:]
LogLimit == 50

\* the log cut to its first n records
LastN_Oldest(log, n) ==
    IF Len(log) <= n THEN log ELSE SubSeq(log, 1, n)

LastN(log, n) ==
    IF Len(log) <= n THEN log ELSE SubSeq(log, Len(log) - n + 1, Len(log))

\* _process_and_apply with the log written only after the validation passed
process_and_apply_LogAccepted(cmd_text, source_hint, sched, log, orders_df) ==
    LET normalized == normalize_order_references(cmd_text)
        extracted  == extract_intent(normalized)
        v       == validate_intent(extracted, orders_df)
        payload == v.payload
        entry   == [raw |-> cmd_text, normalized |-> normalized,
                    payload |-> payload, ok |-> v.ok,
                    msg |-> v.msg, source |-> source_hint]
        newlog  == LastN(Append(log, entry), LogLimit)
    IN
    IF ~v.ok
    THEN [schedule |-> sched, arg |-> sched, log |-> log, intent |-> extracted,
          called |-> "none", report |-> "error"]
    ELSE IF payload.intent = "delay_order"
    THEN [schedule |-> apply_delay(sched, payload.order_id,
                                   GetOrZero(payload.days),
                                   GetOrZero(payload.hours),
                                   GetOrZero(payload.minutes)),
          arg      |-> apply_delay_argument(sched, payload.order_id,
                                            GetOrZero(payload.days),
                                            GetOrZero(payload.hours),
                                            GetOrZero(payload.minutes)),
          log      |-> newlog,
          intent   |-> extracted,
          called   |-> "apply_delay",
          report   |-> IF DirectionRaises(payload) THEN "error" ELSE "success"]
    ELSE [schedule |-> apply_swap(sched, payload.order_id, payload.order_id_2),
          arg      |-> apply_swap_argument(sched, payload.order_id,
                                           payload.order_id_2),
          log      |-> newlog,
          intent   |-> extracted,
          called   |-> "apply_swap",
          report   |-> "success"]

\* what _process_and_apply does to (schedule_df, cmd_log), the intent it
\* extracted, and what it called and reported
process_and_apply(cmd_text, source_hint, sched, log, orders_df) ==
    LET normalized == normalize_order_references(cmd_text)
        extracted  == extract_intent(normalized)
        v       == validate_intent(extracted, orders_df)
        payload == v.payload
        entry   == [raw |-> cmd_text, normalized |-> normalized,
                    payload |-> payload, ok |-> v.ok,
                    msg |-> v.msg, source |-> source_hint]
        newlog  == LastN(Append(log, entry), LogLimit)
    IN
    IF ~v.ok
    THEN [schedule |-> sched, arg |-> sched, log |-> newlog, intent |-> extracted,
          called |-> "none", report |-> "error"]
    ELSE IF payload.intent = "delay_order"
    THEN [schedule |-> apply_delay(sched, payload.order_id,
                                   GetOrZero(payload.days),
                                   GetOrZero(payload.hours),
                                   GetOrZero(payload.minutes)),
          arg      |-> apply_delay_argument(sched, payload.order_id,
                                            GetOrZero(payload.days),
                                            GetOrZero(payload.hours),
                                            GetOrZero(payload.minutes)),
          log      |-> newlog,
          intent   |-> extracted,
          called   |-> "apply_delay",
          report   |-> IF DirectionRaises(payload) THEN "error" ELSE "success"]
    ELSE IF apply_swap_raises(sched, payload.order_id, payload.order_id_2)
    THEN [schedule |-> sched, arg |-> sched, log |-> newlog, intent |-> extracted,
          called |-> "apply_swap", report |-> "error"]
    ELSE [schedule |-> apply_swap(sched, payload.order_id, payload.order_id_2),
          arg      |-> apply_swap_argument(sched, payload.order_id,
                                           payload.order_id_2),
          log      |-> newlog,
          intent   |-> extracted,
          called   |-> "apply_swap",
          report   |-> "success"]

--------------------------------------------------------------------------
(* Inputs of the exploration *)

\* The order files that are loaded: three orders, quantities in multiples of
\* 250 kg so that every stage lasts a whole number of seconds. By due date
\* ORD-003 is scheduled first, then ORD-001 and ORD-002.
Order(oid, sku, qty, due) ==
    [order_id |-> oid, sku_id |-> sku, qty_kg |-> qty, due_date |-> due]

OrderFiles ==
    { << Order("ORD-001", "VRAC_SHAMPOO_BASE", f[1], 2),
         Order("ORD-002", "VRAC_SHAMPOO_BASE", 250, 2),
         Order("ORD-003", f[2], 250, 1) >> :
        f \in { <<250, "VRAC_SHAMPOO_BASE">>, <<500, "VRAC_HAIR_MASK">> } }

OrderIds == {"ORD-001", "ORD-002", "ORD-003"}

Payload(intent, oid, oid2, d, h, m) ==
    [intent |-> intent, order_id |-> oid, order_id_2 |-> oid2,
     days |-> d, hours |-> h, minutes |-> m]

\* (days, hours, minutes) of the delay commands the user gives
Durations ==
    { <<Num(0), Num(0), Num(6)>>,
      <<Num(0), Num(0), Num(-6)>>,
      <<Num(1), Num(0), Num(0)>> }

DelayCommands ==
    {Payload("delay_order", o, NoneId, t[1], t[2], t[3]) :
        o \in OrderIds, t \in Durations}

\* every pair of two orders, and one order with itself
SwapCommands ==
    {Payload("swap_orders", p[1], p[2], Num(0), Num(0), Num(0)) :
        p \in {q \in OrderIds \X OrderIds : q[1] # q[2]}}
        \cup {Payload("swap_orders", "ORD-001", "ORD-001", Num(0), Num(0), Num(0))}

\* commands the validator has to turn down for their order ids or intent
BadCommands ==
    { Payload("delay_order", "ORD-999", NoneId, Num(1), Num(0), Num(0)),
      Payload("delay_order", NoneId, NoneId, Num(1), Num(0), Num(0)),
      Payload("swap_orders", "ORD-999", "ORD-001", Num(0), Num(0), Num(0)),
      Payload("swap_orders", "ORD-001", "ORD-999", Num(0), Num(0), Num(0)),
      Payload("swap_orders", "ORD-001", AbsentId, Num(0), Num(0), Num(0)),
      Payload("unknown", NoneId, NoneId, Num(0), Num(0), Num(0)) }

Commands == DelayCommands \cup SwapCommands \cup BadCommands

\* a text in which the pattern stage finds nothing and for which the
\* external model answers the JSON object data
ModelText(data) == Text("", NoRef, NoRef, <<0, 0, 0>>, Json(data))

\* the texts the user types: one per command, read by the external model
CommandTexts == {ModelText(p) : p \in Commands}

\* what the recordings are transcribed to: commands on ORD-001, which a
\* recording can repeat
VoicePayloads ==
    { Payload("delay_order", "ORD-001", NoneId, Num(0), Num(0), Num(6)),
      Payload("swap_orders", "ORD-001", "ORD-002", Num(0), Num(0), Num(0)),
      Payload("delay_order", "ORD-999", NoneId, Num(1), Num(0), Num(0)) }

Transcripts == {ModelText(p) : p \in VoicePayloads}

\* no command yet
NoCmd == Payload("", NoneId, NoneId, NoneVal, NoneVal, NoneVal)

\* None where a text is expected, and the empty string
NoText == Text("<None>", NoRef, NoRef, <<0, 0, 0>>, ModelFails("none"))
EmptyText == Text("<empty>", NoRef, NoRef, <<0, 0, 0>>, ModelFails("none"))

\* what the recorder widget holds: the fingerprint of the audio and what the
\* transcription makes of it ("text", "empty" for no speech, "error" for a
\* failed call); NoRec before the first recording
Recording(fp, outcome, text) == [fp |-> fp, outcome |-> outcome, text |-> text]
NoRec == Recording(0, "none", NoText)

--------------------------------------------------------------------------
(* The session: st.session_state, the two input widgets, the script *)

\* the record of a step that ran no command, taken in schedule s
NoRun(s) ==
    [cmd |-> NoCmd, pre |-> s, arg |-> s, called |-> "none",
     report |-> "none", text |-> NoText, source |-> "none"]

Init ==
    /\ orders \in OrderFiles
    /\ base_schedule = generate_schedule(orders)
    /\ schedule_df = base_schedule
    /\ cmd_log = << >>
    /\ last_processed_cmd = NoText
    /\ last_audio_fp = 0
    /\ last_transcript = NoText
    /\ prompt_text = EmptyText
    /\ rec = NoRec
    /\ processed = << >>
    /\ last_run = NoRun(base_schedule)
    /\ prev_run = NoRun(base_schedule)
    /\ n_cmds = 0

\* the session state as one value
Session ==
    [schedule_df |-> schedule_df, cmd_log |-> cmd_log,
     last_processed_cmd |-> last_processed_cmd,
     last_audio_fp |-> last_audio_fp, last_transcript |-> last_transcript,
     prompt_text |-> prompt_text, processed |-> processed,
     last_run |-> last_run, prev_run |-> prev_run, n_cmds |-> n_cmds]

\* the session state becomes s
Install(s) ==
    /\ schedule_df' = s.schedule_df
    /\ cmd_log' = s.cmd_log
    /\ last_processed_cmd' = s.last_processed_cmd
    /\ last_audio_fp' = s.last_audio_fp
    /\ last_transcript' = s.last_transcript
    /\ prompt_text' = s.prompt_text
    /\ processed' = s.processed
    /\ last_run' = s.last_run
    /\ prev_run' = s.prev_run
    /\ n_cmds' = s.n_cmds

\* the one element of a set of one element
Only(S) == CHOOSE x \in S : TRUE

\* the session state s after _process_and_apply has returned r
Processed(s, cmd_text, source_hint, r) ==
    [s EXCEPT !.schedule_df = r.schedule,
              !.cmd_log = r.log,
              !.processed = Append(@, [raw |-> cmd_text,
                                       source |-> source_hint]),
              !.prev_run = s.last_run,
              !.last_run = [cmd |-> r.intent, pre |-> s.schedule_df,
                            arg |-> r.arg,
                            called |-> r.called, report |-> r.report,
                            text |-> cmd_text, source |-> source_hint],
              !.n_cmds = @ + 1]

\* a call of _process_and_apply in session state s
Process(s, cmd_text, source_hint) ==
    Only({ Processed(s, cmd_text, source_hint, r) :
             r \in {process_and_apply(cmd_text, source_hint, s.schedule_df,
                                      s.cmd_log, orders)} })

\* a transcription that gave no command: st.error after the exception of
\* _deepgram_transcribe_bytes (line 775), st.warning for an empty transcript
\* (line 773); the step is recorded, nothing else is touched
Unanswered(s, report) ==
    [s EXCEPT !.prev_run = s.last_run,
              !.last_run = [NoRun(s.schedule_df) EXCEPT
                                !.called = "_deepgram_transcribe_bytes",
                                !.report = report,
                                !.source = "voice/deepgram"]]

\* Voice: one shot per unique audio fingerprint (lines 759-775), r what the
\* recorder widget returns
VoiceStep(s, r) ==
    IF r.outcome = "none" \/ r.fp = s.last_audio_fp THEN s
    ELSE IF r.outcome = "error"
    THEN Unanswered([s EXCEPT !.last_audio_fp = r.fp], "error")
    ELSE IF r.outcome = "empty"
    THEN Unanswered([s EXCEPT !.last_audio_fp = r.fp,
                              !.last_transcript = EmptyText], "warning")
    ELSE Process([s EXCEPT !.last_audio_fp = r.fp, !.last_transcript = r.text],
                 r.text, "voice/deepgram")

\* st.session_state.prompt_text = "" (line 781): the assignment to the key
\* of the text input either clears the box (clears) or is refused by the
\* widget, which then keeps the text
PromptCleared(s, clears) ==
    IF clears THEN [s EXCEPT !.prompt_text = EmptyText] ELSE s

\* Text: process once per new command string (lines 777-782)
TextStep(s, clears) ==
    IF s.prompt_text # EmptyText /\ s.prompt_text # s.last_processed_cmd
    THEN PromptCleared(Process([s EXCEPT !.last_processed_cmd = s.prompt_text],
                               s.prompt_text, "text"),
                       clears)
    ELSE s

\* a run of the script from top to bottom from session state s, the
\* widgets returning what they hold, then the run that st.rerun() starts
\* after a command was processed; the session is left as the last run
\* leaves it
RunScript(s, r, clears) ==
    \E s1 \in {VoiceStep(s, r)} :
    \E s2 \in {TextStep(s1, clears)} :
    \E s3 \in {VoiceStep(s2, r)} :
    \E s4 \in {TextStep(s3, clears)} : Install(s4)

\* the user enters user_cmd in the text input
TextCommand(user_cmd) ==
    /\ user_cmd # EmptyText
    /\ user_cmd # prompt_text
    /\ \E clears \in BOOLEAN :
          \E s \in {[Session EXCEPT !.prompt_text = user_cmd]} :
              RunScript(s, rec, clears)
    /\ UNCHANGED <<orders, base_schedule, rec>>

\* the user records an utterance, which the transcription turns into
\* transcript, or into nothing (outcome "empty" or "error")
VoiceCommand(outcome, transcript) ==
    /\ \E r \in {Recording(rec.fp + 1, outcome, transcript)} :
          /\ rec' = r
          /\ \E s \in {Session} : RunScript(s, r, FALSE)
    /\ UNCHANGED <<orders, base_schedule>>

\* the Reset button (lines 215-224) and the run that its st.rerun() starts
Reset ==
    /\ \E s \in {[Session EXCEPT !.cmd_log = << >>,
                                  !.last_transcript = NoText,
                                  !.last_audio_fp = 0,
                                  !.schedule_df = base_schedule,
                                  !.processed = << >>,
                                  !.last_run = NoRun(schedule_df),
                                  !.prev_run = last_run]} :
          RunScript(s, rec, FALSE)
    /\ UNCHANGED <<orders, base_schedule, rec>>

\* fewer than bound commands were processed and recordings made, so that a
\* step may process one more
Below(bound) == n_cmds < bound /\ rec.fp < bound

\* a Reset processes the recording that the recorder still holds
ResetBelow(bound) == rec.outcome # "text" \/ n_cmds < bound

Next ==
    \/ Below(MaxCmds) /\ \E c \in CommandTexts : TextCommand(c)
    \/ Below(MaxCmds) /\ \E c \in Transcripts : VoiceCommand("text", c)
    \/ ResetBelow(MaxCmds) /\ Reset

Spec == Init /\ [][Next]_vars

--------------------------------------------------------------------------
(* The session under commands that exercise the validator *)

\* the values the external model puts in days, hours and minutes
DurValues == {Num(0), Num(6), NumStr(0), NumStr(6), BadStr, NoneVal, AbsentVal}

\* every delay of ORD-001 with such values
DurationPayloads ==
    {Payload("delay_order", "ORD-001", NoneId, d, h, m) :
        d \in DurValues, h \in DurValues, m \in DurValues}

\* delays of ORD-001 that the user gives: a value of each kind in each field
ValidatorDelays ==
    {Payload("delay_order", "ORD-001", NoneId, t[1], t[2], t[3]) : t \in
        { <<Num(0), Num(0), Num(0)>>,       <<NumStr(0), NoneVal, AbsentVal>>,
          <<AbsentVal, AbsentVal, AbsentVal>>,
          <<NumStr(0), NumStr(0), NumStr(0)>>,
          <<BadStr, Num(0), Num(0)>>,       <<Num(0), BadStr, Num(6)>>,
          <<NumStr(6), Num(0), BadStr>>,    <<Num(6), Num(0), Num(0)>>,
          <<NoneVal, Num(0), Num(6)>> }}

\* an intent the scheduler does not have, and an object without intent
OtherIntents ==
    { Payload("cancel_order", "ORD-001", NoneId, Num(1), Num(0), Num(0)),
      Payload("<absent>", "ORD-001", NoneId, Num(1), Num(0), Num(0)) }

ValidatorTexts ==
    {ModelText(p) : p \in ValidatorDelays \cup BadCommands \cup OtherIntents
        \cup {Payload("swap_orders", "ORD-001", "ORD-001", Num(0), Num(0), Num(0)),
              Payload("swap_orders", "ORD-001", "ORD-002", Num(0), Num(0), Num(0))}}

MaxValidated == 2

NextValidate ==
    \/ Below(MaxValidated) /\ \E c \in ValidatorTexts : TextCommand(c)
    \/ ResetBelow(MaxValidated) /\ Reset

SpecValidate == Init /\ [][NextValidate]_vars

--------------------------------------------------------------------------
(* Vocabulary of the properties *)

Dur(r) == r.end - r.start

\* [start, end) of two rows share an instant
Overlap(r1, r2) == r1.start < r2.end /\ r2.start < r1.end

\* on every machine the intervals are pairwise non-overlapping or touching
NoOverlap(s) ==
    \A i, j \in DOMAIN s :
        (i # j /\ s[i].machine = s[j].machine) => ~Overlap(s[i], s[j])

\* within every order each operation starts no earlier than its predecessor
\* by sequence ends
OrderSequenced(s) ==
    \A i, j \in DOMAIN s :
        (s[i].order_id = s[j].order_id /\ s[j].sequence = s[i].sequence + 1)
            => s[j].start >= s[i].end

\* the delta of the delay the last command applied
RequestedSeconds(cmd) ==
    cmd.days.v * 86400 + cmd.hours.v * 3600 + cmd.minutes.v * 60

\* the shift the last command asked for (its fields are numbers)
LastDelta == RequestedSeconds(last_run.cmd)

LastWasDelay == last_run.called = "apply_delay"
LastWasSwap == last_run.called = "apply_swap" /\ last_run.report = "success"

\* the accepted commands in the log
Accepted(kind) ==
    {k \in DOMAIN cmd_log : cmd_log[k].ok /\ cmd_log[k].payload.intent = kind}

--------------------------------------------------------------------------
(* C1: No-overlap. In the initial schedule and after any sequence of       *)
(* accepted Delay (either sign) and Swap operations, any two distinct      *)
(* operations on the same machine have intervals [start, end) that do not  *)
(* overlap (touching is allowed).                                          *)

C1_NoOverlap == NoOverlap(schedule_df)

\* a swap after an advance, whose repair passes moved an operation of the
\* third order
C1_Witness ==
    /\ LastWasSwap
    /\ \E k \in Accepted("delay_order") : cmd_log[k].payload.minutes.v < 0
    /\ \E i \in DOMAIN schedule_df :
          /\ schedule_df[i].order_id \notin
                 {last_run.cmd.order_id, last_run.cmd.order_id_2}
          /\ schedule_df[i].start # last_run.pre[i].start

(* C2: Order-sequence. In every reachable schedule, the operations of each *)
(* order sorted by sequence satisfy start[i+1] >= end[i].                  *)

C2_OrderSequence == OrderSequenced(schedule_df)

(* C3: Duration preservation. For every operation, end - start after any   *)
(* sequence of Delay, Swap and repair passes equals its end - start in the *)
(* initial schedule.                                                       *)

C3_DurationPreserved ==
    /\ Len(schedule_df) = Len(base_schedule)
    /\ \A i \in DOMAIN schedule_df : Dur(schedule_df[i]) = Dur(base_schedule[i])

\* a delay whose repair pass moved an operation of another order
C3_Witness ==
    /\ LastWasDelay
    /\ \E i \in DOMAIN schedule_df :
          /\ schedule_df[i].order_id # last_run.cmd.order_id
          /\ schedule_df[i].start # last_run.pre[i].start

(* C4: Exact shift of the delayed order. In a conflict-free schedule S in  *)
(* which order A precedes order B on every machine, Delay(S, A, D) with    *)
(* D > 0 leaves every operation of A starting exactly D later than in S,   *)
(* and B's operations moved later only as far as needed.                   *)

\* on every machine the operations of a end before those of b start
Precedes(s, a, b) ==
    \A i \in OrderRows(s, a), j \in OrderRows(s, b) :
        s[i].machine = s[j].machine => s[i].end <= s[j].start

\* the last command delayed order A by D > 0 in a conflict-free schedule in
\* which A precedes some order B
C4_Case ==
    /\ LastWasDelay
    /\ LastDelta > 0
    /\ NoOverlap(last_run.pre)
    /\ \E b \in OrderIds \ {last_run.cmd.order_id} :
          Precedes(last_run.pre, last_run.cmd.order_id, b)

\* the same, A preceding every other order of the schedule
C4_CaseFirst ==
    /\ C4_Case
    /\ \A b \in OrderIds \ {last_run.cmd.order_id} :
          Precedes(last_run.pre, last_run.cmd.order_id, b)

\* the claim as stated, A moving by exactly D, in the schedules where every
\* other order is a B
C4_ExactShift ==
    C4_CaseFirst =>
        \A i \in OrderRows(schedule_df, last_run.cmd.order_id) :
            schedule_df[i].start = last_run.pre[i].start + LastDelta

\* another order's operation on the machine of row i that, in S, starts no
\* later than instant t and ends after it
Blockers(s, i, t) ==
    {j \in MachineRows(s, s[i].machine) :
        /\ s[j].order_id # s[i].order_id
        /\ s[j].start <= t
        /\ s[j].end > t}

\* as amended: every operation of A starts at least D later, exactly D later
\* where no operation of another order starts at or before its shifted start
\* and ends after it, and otherwise at the end of an operation of its
\* machine; no other operation moves earlier, and one that moves starts at
\* the end of an operation of its machine
C4_ShiftAtLeast ==
    C4_Case =>
        LET S == last_run.pre
            T == schedule_df
            A == last_run.cmd.order_id
        IN  /\ \A i \in OrderRows(T, A) :
                  /\ T[i].start >= S[i].start + LastDelta
                  /\ Blockers(S, i, S[i].start + LastDelta) = {}
                        => T[i].start = S[i].start + LastDelta
                  /\ T[i].start # S[i].start + LastDelta
                        => \E j \in MachineRows(T, T[i].machine) \ {i} :
                               T[i].start = T[j].end
            /\ \A j \in DOMAIN T \ OrderRows(T, A) :
                  /\ T[j].start >= S[j].start
                  /\ T[j].start # S[j].start
                        => \E k \in MachineRows(T, T[j].machine) \ {j} :
                               T[j].start = T[k].end

\* the case with A pushed beyond D on one machine and B pushed on another
C4_Witness ==
    /\ C4_CaseFirst
    /\ \E i \in OrderRows(schedule_df, last_run.cmd.order_id) :
          schedule_df[i].start > last_run.pre[i].start + LastDelta
    /\ \E j \in DOMAIN schedule_df :
          /\ schedule_df[j].order_id # last_run.cmd.order_id
          /\ schedule_df[j].start > last_run.pre[j].start

(* C5: Bystanders are untouched when there is no conflict. If, after       *)
(* shifting order o by D, o's operations overlap no other operation on any *)
(* machine of a conflict-free schedule S, Delay(S, o, D) leaves start and  *)
(* end of every operation of every other order as they are in S.           *)

\* row r moved by d
Moved(r, d) == [r EXCEPT !.start = r.start + d, !.end = r.end + d]

\* o's operations, moved by d, overlap no operation of another order
ClearAfterShift(s, o, d) ==
    \A i \in OrderRows(s, o), j \in DOMAIN s \ OrderRows(s, o) :
        s[i].machine = s[j].machine => ~Overlap(Moved(s[i], d), s[j])

C5_Case ==
    /\ LastWasDelay
    /\ NoOverlap(last_run.pre)
    /\ ClearAfterShift(last_run.pre, last_run.cmd.order_id, LastDelta)

C5_BystandersUntouched ==
    C5_Case =>
        \A j \in DOMAIN schedule_df :
            schedule_df[j].order_id # last_run.cmd.order_id
                => schedule_df[j] = last_run.pre[j]

\* a delay that lands clear of the others, in a schedule that earlier
\* commands have changed
C5_Witness ==
    /\ C5_Case
    /\ last_run.pre # base_schedule
    /\ schedule_df # last_run.pre

(* C6: Delay followed by its inverse restores relative timing. For any     *)
(* reachable schedule S, order o and shift D (either sign), with nothing   *)
(* in between, in Delay(Delay(S, o, D), o, -D) the starts of o's           *)
(* operations, each taken relative to the start of o's first operation in  *)
(* sequence, are as in S.                                                  *)

\* start of each operation of o relative to its first operation in sequence
Offsets(s, o) ==
    LET first == CHOOSE i \in OrderRows(s, o) :
                     \A j \in OrderRows(s, o) : s[i].sequence <= s[j].sequence
    IN  [i \in OrderRows(s, o) |-> s[i].start - s[first].start]

\* the last two steps were Delay(o, D) and Delay(o, -D)
C6_Case ==
    /\ prev_run.called = "apply_delay"
    /\ LastWasDelay
    /\ last_run.cmd.order_id = prev_run.cmd.order_id
    /\ LastDelta = 0 - RequestedSeconds(prev_run.cmd)

C6_InverseRestoresOffsets ==
    C6_Case =>
        Offsets(schedule_df, last_run.cmd.order_id)
            = Offsets(prev_run.pre, last_run.cmd.order_id)

(* C7: Swap deltas are exact and opposite. Swap(S, A, B) shifts A by       *)
(* D_A = startB - startA and then B by D_B = startA - startB, startX the   *)
(* minimum start of X's operations in S: the shift applied to A is the     *)
(* negative of the one applied to B and the result is                      *)
(* Delay(Delay(S, A, D_A), B, D_B), at one-second granularity.             *)

C7_SwapDeltasExact ==
    LastWasSwap =>
        LET S  == last_run.pre
            A  == last_run.cmd.order_id
            B  == last_run.cmd.order_id_2
            DA == MinStart(S, B) - MinStart(S, A)
            DB == MinStart(S, A) - MinStart(S, B)
        IN  /\ SwapDelta(DA) = DA
            /\ SwapDelta(DB) = DB
            /\ SwapDelta(DA) = 0 - SwapDelta(DB)
            /\ schedule_df = DelayBy(DelayBy(S, A, DA), B, DB)

(* C8: Swap anchor. After Swap(S, A, B) on a conflict-free schedule the    *)
(* earliest start among B's operations equals the earliest start among A's *)
(* operations in S, or is later because a repair pass pushed B forward; it *)
(* is never earlier.                                                       *)

C8_SwapAnchor ==
    (LastWasSwap /\ NoOverlap(last_run.pre)) =>
        MinStart(schedule_df, last_run.cmd.order_id_2)
            >= MinStart(last_run.pre, last_run.cmd.order_id)

(* C9: Unknown order ids are rejected. validate_intent rejects every       *)
(* delay_order or swap_orders intent whose order_id is missing, null or    *)
(* not in the loaded order set, and every swap_orders intent whose         *)
(* order_id_2 is missing, null or not loaded; no mutation function is      *)
(* called for such a command.                                              *)

\* what an id field of a payload may hold
IdValues == OrderIds \cup {"ORD-999", "", NoneId, AbsentId}

\* the delay and swap payloads over these ids
IdPayloads ==
    {Payload(intent, a, b, Num(1), Num(0), Num(0)) :
        intent \in {"delay_order", "swap_orders"}, a \in IdValues, b \in IdValues}

\* the id names one of the orders read from the order file
Loaded(x) == \E i \in DOMAIN orders : orders[i].order_id = x

\* a delay or swap payload with an id the order file does not hold
NamesUnknownOrder(p) ==
    \/ p.intent \in {"delay_order", "swap_orders"} /\ ~Loaded(p.order_id)
    \/ p.intent = "swap_orders" /\ ~Loaded(p.order_id_2)

C9_UnknownIdsRejected ==
    /\ \A p \in IdPayloads :
          NamesUnknownOrder(p) => ~validate_intent(p, orders).ok
    /\ NamesUnknownOrder(last_run.cmd) =>
          /\ last_run.called = "none"
          /\ schedule_df = last_run.pre
    /\ \A k \in DOMAIN cmd_log :
          NamesUnknownOrder(cmd_log[k].payload) => ~cmd_log[k].ok

\* a swap naming an order that is not loaded has been turned down in a
\* schedule that an earlier command had changed
C9_Witness ==
    /\ last_run.cmd.intent = "swap_orders"
    /\ Loaded(last_run.cmd.order_id)
    /\ ~Loaded(last_run.cmd.order_id_2)
    /\ last_run.called = "none"
    /\ cmd_log[Len(cmd_log)].msg = <<"Unknown order: ", GetId(last_run.cmd.order_id_2)>>
    /\ schedule_df # base_schedule

(* C10: Same-order swap is rejected. validate_intent rejects every         *)
(* swap_orders intent whose order_id_2 equals order_id, with the reason    *)
(* 'Cannot swap same order' when that id exists, so apply_swap is never    *)
(* called with two equal order ids through the command pipeline.           *)

C10_SameOrderSwapRejected ==
    /\ \A p \in IdPayloads :
          (p.intent = "swap_orders" /\ p.order_id_2 = p.order_id) =>
              /\ ~validate_intent(p, orders).ok
              /\ Loaded(p.order_id) =>
                    validate_intent(p, orders).msg = <<"Cannot swap same order">>
    /\ last_run.called = "apply_swap" =>
          last_run.cmd.order_id # last_run.cmd.order_id_2
    /\ \A k \in DOMAIN cmd_log :
          (/\ cmd_log[k].payload.intent = "swap_orders"
           /\ cmd_log[k].payload.order_id_2 = cmd_log[k].payload.order_id)
              => ~cmd_log[k].ok

\* a swap of a loaded order with itself has been turned down
C10_Witness ==
    /\ last_run.cmd.intent = "swap_orders"
    /\ Loaded(last_run.cmd.order_id)
    /\ last_run.cmd.order_id_2 = last_run.cmd.order_id
    /\ last_run.called = "none"
    /\ last_run.report = "error"
    /\ cmd_log[Len(cmd_log)].msg = <<"Cannot swap same order">>
    /\ schedule_df = last_run.pre

--------------------------------------------------------------------------
(* C11: Zero-length delay is rejected. A delay_order intent with an        *)
(* existing order_id is rejected with the need-duration reason exactly     *)
(* when each of days, hours and minutes is zero, absent or null (numeric   *)
(* strings being coerced first), and is accepted when every field present  *)
(* is numeric-coercible and at least one is not zero.                      *)

\* zero, a string that reads as zero, null, or no key
ZeroLike(x) == x.t \in {"none", "absent"} \/ (x.t \in {"num", "str"} /\ x.v = 0)

NeedDuration == <<"Need duration (days/hours/minutes)">>

\* the rule, for the verdict v on a delay p of an existing order
ZeroDelayRule(p, v) ==
    LET fields == {p.days, p.hours, p.minutes}
    IN  /\ (~v.ok /\ v.msg = NeedDuration) <=> (\A x \in fields : ZeroLike(x))
        /\ ((\A x \in fields : x.t # "bad") /\ (\E x \in fields : ~ZeroLike(x)))
               => v.ok

\* it holds of every payload of DurationPayloads, and of the delay of an
\* existing order that the session processed last, as the log reports it
C11_ZeroDelayRejected ==
    /\ \A p \in DurationPayloads :
          ZeroDelayRule(p, validate_intent(p, orders))
    /\ (/\ cmd_log # << >>
        /\ last_run.cmd.intent = "delay_order"
        /\ last_run.cmd.order_id \in OrderIds)
          => ZeroDelayRule(last_run.cmd,
                           [ok  |-> cmd_log[Len(cmd_log)].ok,
                            msg |-> cmd_log[Len(cmd_log)].msg])

\* a delay with zero written as a string was turned down for its duration
C11_Witness ==
    /\ last_run.cmd.intent = "delay_order"
    /\ last_run.cmd.order_id = "ORD-001"
    /\ \E x \in {last_run.cmd.days, last_run.cmd.hours, last_run.cmd.minutes} :
          x = NumStr(0)
    /\ last_run.called = "none"
    /\ cmd_log # << >>
    /\ cmd_log[Len(cmd_log)].msg = NeedDuration

--------------------------------------------------------------------------
(* C12: A rejected command changes nothing but the log. For any command    *)
(* whose intent record fails validation (intent unknown or unsupported,    *)
(* unknown order, same-order swap, non-numeric or zero duration) the       *)
(* processing leaves the schedule as it was before the command, appends    *)
(* exactly one record to the command log, with accepted = false and the    *)
(* reason of the rejection, and does not raise.                            *)

RejectionReasons ==
    { <<"Unsupported intent">>, <<"Cannot swap same order">>, NeedDuration }
        \cup {<<"Unknown order: ", o>> : o \in {NoneId, "ORD-999"}}
        \cup {<<k, " must be numeric">> : k \in {"days", "hours", "minutes"}}

\* log is old with one record more, the oldest dropped beyond LogLimit
OneAppended(old, log) ==
    /\ log # << >>
    /\ Len(log) = IF Len(old) < LogLimit THEN Len(old) + 1 ELSE LogLimit
    /\ \A k \in 1..(Len(log) - 1) : log[k] = old[Len(old) - (Len(log) - 1) + k]

\* this step processed one command
ProcessedOne ==
    /\ n_cmds' = n_cmds + 1
    /\ Len(processed') = Len(processed) + 1
    /\ SubSeq(processed', 1, Len(processed)) = processed

C12_RejectedChangesOnlyLog ==
    [][ (ProcessedOne /\ ~validate_intent(last_run'.cmd, orders).ok) =>
            /\ schedule_df' = schedule_df
            /\ OneAppended(cmd_log, cmd_log')
            /\ ~cmd_log'[Len(cmd_log')].ok
            /\ cmd_log'[Len(cmd_log')].msg \in RejectionReasons
            /\ cmd_log'[Len(cmd_log')].msg
                  = validate_intent(last_run'.cmd, orders).msg
            /\ cmd_log'[Len(cmd_log')].raw = last_run'.text
            /\ last_run'.called = "none"
            /\ last_run'.report = "error" ]_vars

\* a command was rejected for a duration that is not a number, in a
\* schedule that an earlier command had changed
C12_Witness ==
    /\ last_run.called = "none"
    /\ schedule_df # base_schedule
    /\ schedule_df = last_run.pre
    /\ Len(cmd_log) = 2
    /\ cmd_log[2].msg = <<"hours", " must be numeric">>

--------------------------------------------------------------------------
(* C13: Reset restores the base state. When the Reset operation has        *)
(* completed, the current schedule is the base schedule, the command log   *)
(* is empty and the cached transcript is cleared; no command submitted     *)
(* before the Reset, as text or as recorded audio, is applied again after  *)
(* it.                                                                     *)

C13_ResetRestoresBase ==
    [][ Reset =>
            /\ schedule_df' = base_schedule
            /\ cmd_log' = << >>
            /\ last_transcript' = NoText
            /\ n_cmds' = n_cmds ]_vars

--------------------------------------------------------------------------
(* C14: A failed command can be re-issued. After a text command was        *)
(* rejected or failed, the user can submit the same command text again,    *)
(* with no other command in between, and it is processed again: validated, *)
(* logged and, if now valid, applied.                                      *)

\* the last command processed was a text command and ended in an error
LastTextFailed == last_run.source = "text" /\ last_run.report = "error"

\* in this step the user enters in the emptied text input the text of the
\* last command
SameTextEntered ==
    /\ prompt_text = EmptyText
    /\ prompt_text' = last_run.text
    /\ rec' = rec

C14_FailedTextReissued ==
    [][ (LastTextFailed /\ SameTextEntered) =>
            /\ n_cmds' = n_cmds + 1
            /\ last_run'.text = last_run.text
            /\ Len(cmd_log') = Len(cmd_log) + 1
            /\ cmd_log'[Len(cmd_log')].raw = last_run.text ]_vars

--------------------------------------------------------------------------
(* Long sessions: two texts submitted in turn until the log is full *)

\* one command that is accepted and one that is rejected
LogTexts ==
    { ModelText(Payload("delay_order", "ORD-001", NoneId, Num(0), Num(0), Num(1))),
      ModelText(Payload("delay_order", "ORD-999", NoneId, Num(0), Num(0), Num(1))) }

MaxLogCmds == 52

NextLog ==
    \/ Below(MaxLogCmds) /\ \E c \in LogTexts : TextCommand(c)
    \/ ResetBelow(MaxLogCmds) /\ Reset

SpecLog == Init /\ [][NextLog]_vars

--------------------------------------------------------------------------
(* C15: Command log is the most recent 50. After n commands processed      *)
(* since the last Reset, the command log holds exactly the records of the  *)
(* last min(n, 50) of them, in the order they were processed, one record   *)
(* per command, accepted or rejected.                                      *)

Min2(a, b) == IF a <= b THEN a ELSE b

\* the log record is the record of the processed command
RecordOf(entry, done) ==
    /\ entry.raw = done.raw
    /\ entry.source = done.source

C15_LogIsMostRecent50 ==
    LET n == Len(processed)
        m == Len(cmd_log)
    IN  /\ m = Min2(n, 50)
        /\ \A i \in 1..m : RecordOf(cmd_log[i], processed[n - m + i])

C15_Witness ==
    /\ Len(processed) > 50
    /\ Len(cmd_log) = 50
    /\ \E i, j \in 1..50 : cmd_log[i].ok /\ ~cmd_log[j].ok
    /\ cmd_log[1].raw # processed[1].raw

--------------------------------------------------------------------------
(* Order files: the three orders in every file order, with equal and       *)
(* different due dates, quantities and products                            *)

LoadDues == {1, 2}
LoadQtys == {250, 500}
LoadSkus == {"VRAC_SHAMPOO_BASE", "VRAC_HAIR_MASK"}

LoadIds == <<"ORD-001", "ORD-002", "ORD-003">>

\* the orders of a file, by number
LoadOrders ==
    { [i \in 1..3 |-> Order(LoadIds[i], sku[i], qty[i], due[i])] :
        sku \in [1..3 -> LoadSkus], qty \in [1..3 -> LoadQtys],
        due \in [1..3 -> LoadDues] }

\* the rows of data/orders.csv in any order
LoadFiles ==
    { [i \in 1..3 |-> os[p[i]]] : os \in LoadOrders, p \in Permutations(1..3) }

LoadTexts ==
    { ModelText(Payload("delay_order", "ORD-001", NoneId, Num(0), Num(0), Num(1))) }

MaxLoadCmds == 1

InitLoad ==
    /\ orders \in LoadFiles
    /\ base_schedule = generate_schedule(orders)
    /\ schedule_df = base_schedule
    /\ cmd_log = << >>
    /\ last_processed_cmd = NoText
    /\ last_audio_fp = 0
    /\ last_transcript = NoText
    /\ prompt_text = EmptyText
    /\ rec = NoRec
    /\ processed = << >>
    /\ last_run = NoRun(base_schedule)
    /\ prev_run = NoRun(base_schedule)
    /\ n_cmds = 0

NextLoad ==
    \/ Below(MaxLoadCmds) /\ \E c \in LoadTexts : TextCommand(c)
    \/ ResetBelow(MaxLoadCmds) /\ Reset

SpecLoad == InitLoad /\ [][NextLoad]_vars

--------------------------------------------------------------------------
(* C16: Initial schedule is valid by construction. For any list of orders  *)
(* with positive quantities, on every machine the operations of the        *)
(* initial schedule appear in order-processing order (due_date, then       *)
(* order_id), each starting no earlier than the one before it ends, and    *)
(* within every order MIX, TRF, FILL, FIN are placed each starting no      *)
(* earlier than the end of the operation before it.                        *)

PositiveQuantities == \A i \in DOMAIN orders : orders[i].qty_kg > 0

\* row r1 belongs to an order processed before the order of r2
ProcessedBefore(r1, r2) ==
    \/ r1.due_date < r2.due_date
    \/ r1.due_date = r2.due_date /\ IdRank(r1.order_id) < IdRank(r2.order_id)

OperationNames == <<"MIX", "TRF", "FILL", "FIN">>

InitialMachineOrder ==
    \A i, j \in DOMAIN base_schedule :
        LET r1 == base_schedule[i]
            r2 == base_schedule[j]
        IN  (r1.machine = r2.machine /\ ProcessedBefore(r1, r2)) =>
                i < j /\ r2.start >= r1.end

InitialOrderSequence ==
    \A i \in DOMAIN orders :
        LET rows == [k \in 1..4 |->
                        {r \in Range(base_schedule) :
                            /\ r.order_id = orders[i].order_id
                            /\ r.operation = OperationNames[k]
                            /\ r.sequence = k}]
        IN  /\ \A k \in 1..4 : Cardinality(rows[k]) = 1
            /\ \A k \in 1..3 :
                   \A r1 \in rows[k], r2 \in rows[k + 1] : r2.start >= r1.end

C16_InitialScheduleValid ==
    PositiveQuantities =>
        /\ Len(base_schedule) = 4 * Len(orders)
        /\ InitialMachineOrder
        /\ InitialOrderSequence

\* a file not in processing order, with equal due dates, unequal
\* quantities, and an operation that waits for its order, not its machine
C16_Witness ==
    /\ PositiveQuantities
    /\ \E i, j \in DOMAIN orders :
           /\ i < j
           /\ orders[i].due_date = orders[j].due_date
           /\ IdRank(orders[i].order_id) > IdRank(orders[j].order_id)
           /\ orders[i].qty_kg # orders[j].qty_kg
    /\ \E i, j \in DOMAIN base_schedule :
           /\ i < j
           /\ base_schedule[i].machine = base_schedule[j].machine
           /\ base_schedule[j].start > base_schedule[i].end

--------------------------------------------------------------------------
(* C17: Initial scheduling is deterministic in the order set. For any two  *)
(* input sequences that are permutations of the same set of orders (unique *)
(* order ids, possibly equal due dates), the initial scheduler produces    *)
(* the same schedule.                                                      *)

UniqueOrderIds ==
    \A i, j \in DOMAIN orders :
        orders[i].order_id = orders[j].order_id => i = j

\* the loaded file with its rows in the order p
Permuted(p) == [i \in DOMAIN orders |-> orders[p[i]]]

C17_SameScheduleForPermutations ==
    UniqueOrderIds =>
        \A p \in Permutations(DOMAIN orders) :
            generate_schedule(Permuted(p)) = base_schedule

\* two orders with the same due date stand in the file against their ids
C17_Witness ==
    /\ UniqueOrderIds
    /\ \E i, j \in DOMAIN orders :
           /\ i < j
           /\ orders[i].due_date = orders[j].due_date
           /\ IdRank(orders[i].order_id) > IdRank(orders[j].order_id)
           /\ orders[i].sku_id # orders[j].sku_id
    /\ \E p \in Permutations(DOMAIN orders) : Permuted(p) # orders

--------------------------------------------------------------------------
(* C20: Initial placement rule. In the initial schedule every operation    *)
(* starts exactly at the later of the end of the previous operation placed *)
(* on the same machine (the base start if none) and the end of the         *)
(* previous operation of the same order (if any), and ends at              *)
(* start + qty/300 * ratio[product][kind] hours; the first operation of an *)
(* order starts exactly when its machine becomes free, and the free        *)
(* instant of a machine never moves backward while orders are placed.      *)

\* rows placed before the i-th on its machine, and of its order
EarlierOnMachine(i) ==
    {j \in 1..(i - 1) : base_schedule[j].machine = base_schedule[i].machine}

EarlierOfOrder(i) ==
    {j \in 1..(i - 1) : base_schedule[j].order_id = base_schedule[i].order_id}

SetMax(S) == CHOOSE x \in S : \A y \in S : y <= x

\* the free instant of the machine of the i-th row when it is placed
FreeInstant(i) ==
    IF EarlierOnMachine(i) = {} THEN base_start
    ELSE base_schedule[SetMax(EarlierOnMachine(i))].end

\* qty/300 * ratio hours in seconds, the ratio in thousandths
RatioSeconds(row) ==
    LET o == CHOOSE o \in Range(orders) : o.order_id = row.order_id
    IN  (o.qty_kg * time_percentages[o.sku_id][row.operation] * 3600)
            \div (300 * 1000)

PlacedByRule(i) ==
    LET row == base_schedule[i]
    IN  /\ row.start =
               IF EarlierOfOrder(i) = {} THEN FreeInstant(i)
               ELSE Max2(FreeInstant(i),
                         base_schedule[SetMax(EarlierOfOrder(i))].end)
        /\ row.end = row.start + RatioSeconds(row)
        /\ row.end >= FreeInstant(i)

C20_InitialPlacementRule ==
    \A i \in DOMAIN base_schedule : PlacedByRule(i)

\* an operation waits for its machine, another for its order, and a first
\* operation starts after the base start
C20_Witness ==
    /\ \E i \in DOMAIN base_schedule :
           /\ EarlierOfOrder(i) # {}
           /\ FreeInstant(i) > base_schedule[SetMax(EarlierOfOrder(i))].end
    /\ \E i \in DOMAIN base_schedule :
           /\ EarlierOfOrder(i) # {}
           /\ EarlierOnMachine(i) # {}
           /\ FreeInstant(i) < base_schedule[SetMax(EarlierOfOrder(i))].end
    /\ \E i \in DOMAIN base_schedule :
           /\ EarlierOfOrder(i) = {}
           /\ base_schedule[i].start > base_start
           /\ base_schedule[i].start < base_schedule[i - 1].end

--------------------------------------------------------------------------
(* Sessions in which the call of the external model fails *)

\* the call raised, timed out, or returned content that is not a JSON object
FailKinds == {"error", "timeout", "malformed"}

ExtractTexts ==
    \* nothing the pattern stage finds, and the model call fails
    { Text("", NoRef, NoRef, <<0, 0, 0>>, ModelFails(k)) : k \in FailKinds }
    \cup
    \* "delay order 1" without a duration, and the model call fails
    { Text("delay", OrderRef("order", <<1>>, ""), NoRef, <<0, 0, 0>>,
           ModelFails("timeout")),
    \* "delay order 1 by 1 minute" and "swap order 1 and order 2", found by
    \* the pattern stage
      Text("delay", OrderRef("order", <<1>>, ""), NoRef, <<0, 0, 1>>,
           ModelFails("error")),
      Text("swap", OrderRef("order", <<1>>, ""), OrderRef("order", <<2>>, ""),
           <<0, 0, 0>>, ModelFails("error")),
    \* a delay of ORD-002 read by the model
      ModelText(Payload("delay_order", "ORD-002", NoneId, Num(0), Num(0), Num(1))) }

MaxExtracted == 2

NextExtract ==
    \/ Below(MaxExtracted) /\ \E c \in ExtractTexts : TextCommand(c)
    \/ ResetBelow(MaxExtracted) /\ Reset

SpecExtract == Init /\ [][NextExtract]_vars

--------------------------------------------------------------------------
(* C18: Extractor failure degrades to unknown. When the pattern stage      *)
(* finds no match and the call of the external model fails, times out or   *)
(* returns a malformed response, extract_intent returns a record with      *)
(* intent unknown; the command is rejected as unsupported, the schedule is *)
(* unchanged and the session continues to accept commands.                 *)

\* the pattern stage finds nothing in the text and the model call fails
ExtractorFailed(text) ==
    /\ text.model.kind \in FailKinds
    /\ \/ text.verb \notin {"swap", "delay", "advance"}
       \/ text.verb = "swap" /\ (text.ref = NoRef \/ text.ref2 = NoRef)
       \/ text.verb \in {"delay", "advance"}
              /\ (text.ref = NoRef \/ text.dur = <<0, 0, 0>>)

DegradedToUnknown(run) ==
    /\ run.cmd.intent = "unknown"
    /\ run.called = "none"
    /\ run.report = "error"

\* the command of the last run is one the loaded orders accept
LastRunValid ==
    /\ last_run.text # NoText
    /\ validate_intent(extract_intent(normalize_order_references(last_run.text)),
                       orders).ok

C18_ExtractorFailureIsUnknown ==
    /\ \A run \in {last_run, prev_run} :
           ExtractorFailed(run.text) => DegradedToUnknown(run)
    /\ ExtractorFailed(last_run.text) =>
           /\ schedule_df = last_run.pre
           /\ cmd_log # << >>
           /\ ~cmd_log[Len(cmd_log)].ok
           /\ cmd_log[Len(cmd_log)].msg = <<"Unsupported intent">>
           /\ cmd_log[Len(cmd_log)].raw = last_run.text
    /\ (ExtractorFailed(prev_run.text) /\ LastRunValid) =>
           /\ last_run.report = "success"
           /\ schedule_df # last_run.pre

\* a command given after a failure of each kind was accepted and applied,
\* and a failure left the schedule a command had changed
C18_Witness ==
    /\ ExtractorFailed(prev_run.text)
    /\ prev_run.text.verb = "delay"
    /\ LastRunValid
    /\ last_run.report = "success"
    /\ schedule_df # base_schedule

--------------------------------------------------------------------------
(* Order references as the user writes them *)

MaxDigits == 4

RefDigits == {0, 1}

DigitStrings == UNION {[1..k -> RefDigits] : k \in 1..MaxDigits}

RefWords == {"zero", "seven", "twenty", "thirty"}

\* "order 7", "order number 7", "order #7", the same with a word
WrittenRefs ==
    {OrderRef(f, d, "") : f \in {"order", "number", "hash"}, d \in DigitStrings}
    \cup {OrderRef(f, << >>, w) : f \in {"order", "number", "hash"}, w \in RefWords}

\* "delay <reference> by 1 minute"; the model call fails
RefTexts ==
    {Text("delay", r, NoRef, <<0, 0, 1>>, ModelFails("error")) : r \in WrittenRefs}

MaxNormalized == 1

NextNormalize ==
    \/ Below(MaxNormalized) /\ \E c \in RefTexts : TextCommand(c)
    \/ ResetBelow(MaxNormalized) /\ Reset

SpecNormalize == Init /\ [][NextNormalize]_vars

--------------------------------------------------------------------------
(* C19: Order-reference normalization range. For every integer n written   *)
(* as digits after the word "order" or "order number", and for every       *)
(* integer n written with at most three digits after "order #",            *)
(* normalize_order_references rewrites the reference to the token ORD-     *)
(* followed by n zero-padded to three digits exactly when 1 <= n <= 100,   *)
(* and leaves the text unchanged otherwise; a number word of zero..twenty  *)
(* after "order" or "order number" is rewritten the same way.              *)

\* the integer a reference names, -1 if none
NamedInteger(r) ==
    IF r.digits # << >> THEN IntOf(r.digits)
    ELSE IF r.word \in Range(NumWordList)
    THEN (CHOOSE i \in DOMAIN NumWordList : NumWordList[i] = r.word) - 1
    ELSE 0 - 1

\* the token ORD-ddd of n
Token(n) ==
    [form |-> "ord", digits |-> << n \div 100, (n \div 10) % 10, n % 10 >>,
     word |-> ""]

RewrittenInRange(r, out) ==
    LET n == NamedInteger(r)
    IN  IF 1 <= n /\ n <= 100 THEN out = Token(n) ELSE out = r

\* the statement as claimed: every reference written with digits in one of
\* the three forms, or with a word after "order" or "order number"
RangeRule(r, out) ==
    (r.digits # << >> \/ r.form \in {"order", "number"}) =>
        RewrittenInRange(r, out)

\* the statement with "order #" taken up to three digits
RangeRuleUpTo3(r, out) ==
    IF r.form = "hash"
    THEN IF r.digits # << >> /\ Len(r.digits) <= 3
         THEN RewrittenInRange(r, out) ELSE out = r
    ELSE RewrittenInRange(r, out)

C19_RangeRule ==
    \A k \in DOMAIN cmd_log :
        /\ RangeRule(cmd_log[k].raw.ref, cmd_log[k].normalized.ref)
        /\ cmd_log[k].normalized = [cmd_log[k].raw EXCEPT
                                       !.ref = cmd_log[k].normalized.ref]

C19_RangeRuleUpTo3Digits ==
    \A k \in DOMAIN cmd_log :
        /\ RangeRuleUpTo3(cmd_log[k].raw.ref, cmd_log[k].normalized.ref)
        /\ cmd_log[k].normalized = [cmd_log[k].raw EXCEPT
                                       !.ref = cmd_log[k].normalized.ref]

\* "order #0001" was processed and left as written, and the log record
\* shows it
C19_Witness ==
    \E k \in DOMAIN cmd_log :
        /\ cmd_log[k].raw.ref = OrderRef("hash", <<0, 0, 0, 1>>, "")
        /\ cmd_log[k].normalized = cmd_log[k].raw
        /\ ~cmd_log[k].ok

--------------------------------------------------------------------------
(* The repair pass on schedules of any shape: rows of two orders on two    *)
(* machines, started anywhere, overlapping or not                          *)

MaxRows == 3
MaxStart == 2

RepairOrders == {"ORD-001", "ORD-002"}

\* the rows belong to the two orders in turn
RepairRow(i, machine, start, dur) ==
    [order_id   |-> IF i % 2 = 1 THEN "ORD-001" ELSE "ORD-002",
     operation  |-> IF machine = "MIX_1" THEN "MIX" ELSE "TRF",
     sequence   |-> IF machine = "MIX_1" THEN 1 ELSE 2,
     machine    |-> machine,
     start      |-> start,
     end        |-> start + dur,
     due_date   |-> 1,
     wheel_type |-> "VRAC_SHAMPOO_BASE"]

RepairSchedules ==
    { [i \in 1..MaxRows |-> RepairRow(i, m[i], st[i], d[i])] :
        m \in [1..MaxRows -> {"MIX_1", "TRANS_1"}],
        st \in [1..MaxRows -> 0..MaxStart],
        d \in [1..MaxRows -> {1, 2}] }

InitRepair ==
    /\ orders = << >>
    /\ schedule_df \in RepairSchedules
    /\ base_schedule = schedule_df
    /\ cmd_log = << >>
    /\ last_processed_cmd = NoText
    /\ last_audio_fp = 0
    /\ last_transcript = NoText
    /\ prompt_text = EmptyText
    /\ rec = NoRec
    /\ processed = << >>
    /\ last_run = NoRun(schedule_df)
    /\ prev_run = NoRun(schedule_df)
    /\ n_cmds = 0

\* a call of _repack_touched_machines on the current schedule
RepairPass(touched_orders) ==
    /\ schedule_df' = _repack_touched_machines(schedule_df, touched_orders)
    /\ last_run' = [NoRun(schedule_df) EXCEPT
                        !.called = "_repack_touched_machines",
                        !.cmd = touched_orders]
    /\ prev_run' = last_run
    /\ n_cmds' = n_cmds + 1
    /\ UNCHANGED <<orders, base_schedule, cmd_log, last_processed_cmd,
                   last_audio_fp, last_transcript, prompt_text, rec, processed>>

\* one pass on each schedule
NextRepair ==
    n_cmds = 0 /\ \E touched \in SUBSET RepairOrders : RepairPass(touched)

SpecRepair == InitRepair /\ [][NextRepair]_vars

--------------------------------------------------------------------------
(* C21: Repair only moves operations later. For any schedule and any set   *)
(* of touched orders, the repair pass leaves every operation's start       *)
(* greater than or equal to its start before the pass, keeps on each       *)
(* machine the relative order the operations had when sorted by            *)
(* (start, end) before the pass, and leaves operations on machines not     *)
(* used by a touched order unchanged.                                      *)

LastWasRepair == last_run.called = "_repack_touched_machines"

\* (start, end) of r1 is below that of r2
KeyBelow(r1, r2) ==
    \/ r1.start < r2.start
    \/ r1.start = r2.start /\ r1.end < r2.end

\* the machines on which an order of touched has a row of s
MachinesUsed(s, touched) ==
    {s[i].machine : i \in {j \in DOMAIN s : s[j].order_id \in touched}}

C21_RepairOnlyLater ==
    LastWasRepair =>
        LET S == last_run.pre
            T == schedule_df
        IN  /\ DOMAIN T = DOMAIN S
            /\ \A i \in DOMAIN S : T[i].start >= S[i].start
            /\ \A i, j \in DOMAIN S :
                   (S[i].machine = S[j].machine /\ KeyBelow(S[i], S[j]))
                       => ~KeyBelow(T[j], T[i])
            /\ \A i \in DOMAIN S :
                   S[i].machine \notin MachinesUsed(S, last_run.cmd)
                       => T[i] = S[i]

\* a pass that pushed a row behind another on a machine of a touched order
\* and left the row on the machine that no touched order uses
C21_Witness ==
    /\ LastWasRepair
    /\ \E i, j \in DOMAIN schedule_df :
           /\ schedule_df[i].machine = schedule_df[j].machine
           /\ schedule_df[i].start > last_run.pre[i].start
           /\ schedule_df[i].start = schedule_df[j].end
    /\ \E i \in DOMAIN schedule_df :
           schedule_df[i].machine \notin MachinesUsed(last_run.pre, last_run.cmd)

--------------------------------------------------------------------------
(* Sessions with delays whose parts cancel *)

NetZeroTexts ==
    \* days=1, hours=-24 and hours=1, minutes=-60
    { ModelText(Payload("delay_order", "ORD-001", NoneId, Num(1), Num(0 - 24), Num(0))),
      ModelText(Payload("delay_order", "ORD-002", NoneId, Num(0), Num(1), Num(0 - 60))),
    \* commands that change the schedule
      ModelText(Payload("delay_order", "ORD-001", NoneId, Num(0), Num(0), Num(6))),
      ModelText(Payload("delay_order", "ORD-003", NoneId, Num(0), Num(0), Num(0 - 6))),
      ModelText(Payload("swap_orders", "ORD-001", "ORD-002", Num(0), Num(0), Num(0))) }

MaxNetZero == 3

NextNetZero ==
    \/ Below(MaxNetZero) /\ \E c \in NetZeroTexts : TextCommand(c)
    \/ ResetBelow(MaxNetZero) /\ Reset

SpecNetZero == Init /\ [][NextNetZero]_vars

--------------------------------------------------------------------------
(* C22: A net-zero delay is a no-op. For any reachable schedule S and      *)
(* order o, Delay(S, o, days, hours, minutes) with days + hours + minutes  *)
(* summing to a zero duration (for example days=1, hours=-24, which the    *)
(* validator accepts) returns a schedule equal to S in every operation's   *)
(* start and end.                                                          *)

\* the last command was an accepted delay whose parts sum to zero
LastWasNetZero ==
    /\ LastWasDelay
    /\ cmd_log # << >>
    /\ cmd_log[Len(cmd_log)].ok
    /\ LastDelta = 0

C22_NetZeroDelayIsNoOp ==
    LastWasNetZero =>
        /\ Len(schedule_df) = Len(last_run.pre)
        /\ \A i \in DOMAIN schedule_df :
               /\ schedule_df[i].start = last_run.pre[i].start
               /\ schedule_df[i].end = last_run.pre[i].end

\* days=1, hours=-24 accepted on a schedule that a delay and a swap had
\* changed
C22_Witness ==
    /\ LastWasNetZero
    /\ last_run.cmd.days = Num(1)
    /\ last_run.pre # base_schedule
    /\ Accepted("swap_orders") # {}
    /\ \E k \in Accepted("delay_order") : cmd_log[k].payload.minutes.v # 0

---------------------------------------------------------------------------
(* C23: Schedules are replaced, never edited in place: apply_delay and     *)
(* apply_swap leave the schedule value passed to them unchanged and return *)
(* a new value, so over any sequence of commands and Resets the base       *)
(* schedule never changes, and the current schedule only ever holds the    *)
(* base schedule or the complete result of an accepted Delay or Swap       *)
(* (never the shifted-but-unrepaired schedule, and never the state between *)
(* the two delays of a Swap).                                              *)

\* the schedule between the two delays of a Swap of a and b in s
SwapMidway(s, a, b) == DelayBy(s, a, SwapDelta(MinStart(s, b) - MinStart(s, a)))

\* both delays of a Swap of a and b in s, each one shifted and repaired; the
\* two differences are those of s
SwapComplete(s, a, b) ==
    DelayBy(SwapMidway(s, a, b), b, SwapDelta(MinStart(s, a) - MinStart(s, b)))

\* s is what the step recorded in run leaves: the schedule it started from
\* when nothing was applied, else the complete result of its Delay or Swap
LeftBy(run, s) ==
    \/ /\ run.called = "none" \/ (run.called = "apply_swap" /\ run.report = "error")
       /\ s = run.pre
    \/ /\ run.called = "apply_delay"
       /\ s = DelayBy(run.pre, run.cmd.order_id, RequestedSeconds(run.cmd))
    \/ /\ run.called = "apply_swap" /\ run.report = "success"
       /\ s = SwapComplete(run.pre, run.cmd.order_id, run.cmd.order_id_2)

\* C23: the base schedule is the loaded one, the object passed to the last
\* apply call holds what it held before the call, and the current schedule
\* and the one before it are the base schedule or what a whole step left
C23_ReplacedNeverEdited ==
    /\ base_schedule = generate_schedule(orders)
    /\ last_run.arg = last_run.pre
    /\ schedule_df = base_schedule \/ LeftBy(last_run, schedule_df)
    /\ last_run.pre = base_schedule \/ LeftBy(prev_run, last_run.pre)

\* a Swap was applied whose result is neither the schedule passed to it nor
\* the schedule between its two delays, and the base schedule is another
C23_Witness ==
    /\ LastWasSwap
    /\ schedule_df # last_run.pre
    /\ schedule_df # SwapMidway(last_run.pre, last_run.cmd.order_id,
                                last_run.cmd.order_id_2)
    /\ schedule_df # base_schedule
    /\ last_run.pre # base_schedule

---------------------------------------------------------------------------
(* Recordings that give no command: the request to the transcription       *)
(* service fails, or its transcript is empty. Next to them one recording   *)
(* and one text that are commands.                                         *)

VoiceTexts ==
    { ModelText(Payload("delay_order", "ORD-001", NoneId, Num(0), Num(0), Num(6))) }

TypedTexts ==
    { ModelText(Payload("delay_order", "ORD-002", NoneId, Num(0), Num(0), Num(6))),
      ModelText(Payload("swap_orders", "ORD-001", "ORD-003", Num(0), Num(0), Num(0))) }

MaxVoice == 2

NextVoice ==
    \/ Below(MaxVoice) /\ VoiceCommand("error", NoText)
    \/ Below(MaxVoice) /\ VoiceCommand("empty", EmptyText)
    \/ Below(MaxVoice) /\ \E c \in VoiceTexts : VoiceCommand("text", c)
    \/ Below(MaxVoice) /\ \E c \in TypedTexts : TextCommand(c)
    \/ ResetBelow(MaxVoice) /\ Reset

SpecVoice == Init /\ [][NextVoice]_vars

\* the last run of the voice handling got no command from its recording
LastUnanswered == last_run.called = "_deepgram_transcribe_bytes"

---------------------------------------------------------------------------
(* C24: Transcription failure is terminal and harmless: when transcription *)
(* of a recorded utterance fails or returns empty text, no intent          *)
(* extraction or mutation is started, the current schedule and the command *)
(* log are unchanged, and the same recording is not transcribed or         *)
(* processed again on later reruns of the script (its fingerprint is       *)
(* recorded before transcription is attempted).                            *)

\* C24: a step in which a transcription failed or came back empty is the
\* step in which that recording was made, and it leaves the schedule, the
\* command log and the number of processed commands as they were
C24_FailedTranscriptionIsTerminal ==
    [][ (LastUnanswered' /\ <<last_run, prev_run>>' # <<last_run, prev_run>>) =>
            /\ rec' # rec
            /\ last_audio_fp' = rec'.fp
            /\ schedule_df' = schedule_df
            /\ cmd_log' = cmd_log
            /\ n_cmds' = n_cmds ]_vars

---------------------------------------------------------------------------
(* C25: At-most-once application: each command the user submits (one text  *)
(* entry or one recorded utterance) is processed and applied to the        *)
(* schedule at most once, however many times the script reruns afterwards  *)
(* without new user input, including reruns triggered by applying a        *)
(* command or by Reset while the input widgets still hold the last text or *)
(* recording.                                                              *)

\* C25: a step in which the user submits a text or a recording processes at
\* most one command, that one, and a step in which the user submits nothing
\* (Reset and the rerun it starts) processes none
C25_AtMostOnce ==
    [][ /\ n_cmds' <= n_cmds + 1
        /\ n_cmds' = n_cmds + 1 =>
              /\ \/ rec' # rec /\ last_run'.source = "voice/deepgram"
                 \/ rec' = rec /\ last_run'.source = "text"
                               /\ last_run'.text # prompt_text
              /\ prev_run' = last_run ]_vars

---------------------------------------------------------------------------
(* Delay commands for which the external model answers null for a part of  *)
(* the duration (setdefault leaves a null as it is), next to a delay with  *)
(* three numbers, a swap and commands the validator turns down.            *)

NullPartTexts ==
    { ModelText(Payload("delay_order", "ORD-001", NoneId, NoneVal, Num(0), Num(6))),
      ModelText(Payload("delay_order", "ORD-002", NoneId, Num(1), Num(0), NoneVal)),
      ModelText(Payload("delay_order", "ORD-003", NoneId, Num(0 - 1), NoneVal, Num(0))),
      ModelText(Payload("delay_order", "ORD-001", NoneId, AbsentVal, Num(0), Num(6))),
      ModelText(Payload("delay_order", "ORD-002", NoneId, NoneVal, NoneVal, NoneVal)),
      ModelText(Payload("delay_order", "ORD-999", NoneId, Num(1), Num(0), Num(0))),
      ModelText(Payload("swap_orders", "ORD-001", "ORD-002", Num(0), Num(0), Num(0))) }

MaxReported == 2

NextReport ==
    \/ Below(MaxReported) /\ \E c \in NullPartTexts : TextCommand(c)
    \/ ResetBelow(MaxReported) /\ Reset

SpecReport == Init /\ [][NextReport]_vars

---------------------------------------------------------------------------
(* C26: An error report means no change: whenever processing of a command  *)
(* ends by reporting an error to the user (a validation rejection or an    *)
(* exception caught in _process_and_apply), the current schedule equals    *)
(* its value before the command, and every command-log record with         *)
(* accepted=true corresponds to a command reported as success; this covers *)
(* validated delay_order payloads in which one of days/hours/minutes is    *)
(* null or absent while another is non-zero.                               *)

\* the last step processed a command, whose record is the last of the log
LastProcessed == last_run.source \in {"text", "voice/deepgram"} /\ cmd_log # << >>

\* C26: when the command processed last was reported as an error, the
\* schedule is the one before it and its log record is not an accepted one
C26_ErrorMeansNoChange ==
    (LastProcessed /\ last_run.report = "error") =>
        /\ schedule_df = last_run.pre
        /\ ~cmd_log[Len(cmd_log)].ok

---------------------------------------------------------------------------
(* Delays, swaps and Resets of the session, and apply_delay called with an *)
(* order id that no row of the schedule carries (the validator lets no     *)
(* such id through, so the function is called on the current schedule).    *)

OpsTexts ==
    { ModelText(Payload("delay_order", "ORD-001", NoneId, Num(0), Num(0), Num(6))),
      ModelText(Payload("delay_order", "ORD-002", NoneId, Num(0 - 1), Num(0), Num(0))),
      ModelText(Payload("swap_orders", "ORD-001", "ORD-003", Num(0), Num(0), Num(0))),
      ModelText(Payload("swap_orders", "ORD-002", "ORD-001", Num(0), Num(0), Num(0))) }

\* (order id, days, hours, minutes) of the calls
DelayCalls ==
    { <<"ORD-999", Num(1), Num(0), Num(6)>>,
      <<"ORD-999", Num(0), Num(0 - 2), NoneVal>>,
      <<"", Num(0), Num(0), Num(6)>> }

MaxOps == 3

\* schedule_df = apply_delay(schedule_df, order_id, days, hours, minutes)
DelayCall(c) ==
    /\ schedule_df' = apply_delay(schedule_df, c[1], c[2], c[3], c[4])
    /\ last_run' = [NoRun(schedule_df) EXCEPT
                        !.called = "apply_delay",
                        !.cmd = Payload("delay_order", c[1], NoneId,
                                        c[2], c[3], c[4])]
    /\ prev_run' = last_run
    /\ n_cmds' = n_cmds + 1
    /\ UNCHANGED <<orders, base_schedule, cmd_log, last_processed_cmd,
                   last_audio_fp, last_transcript, prompt_text, rec, processed>>

NextOps ==
    \/ Below(MaxOps) /\ \E c \in OpsTexts : TextCommand(c)
    \/ Below(MaxOps) /\ \E c \in DelayCalls : DelayCall(c)
    \/ ResetBelow(MaxOps) /\ Reset

SpecOps == Init /\ [][NextOps]_vars

---------------------------------------------------------------------------
(* C27: Operation set is preserved: after any sequence of Delay, Swap and  *)
(* Reset operations the current schedule contains exactly the same         *)
(* operations as the base schedule, each with unchanged order_id,          *)
(* operation kind, sequence, machine, due_date and product; only start and *)
(* end ever differ, and a Delay naming an order with no operations returns *)
(* the schedule unchanged.                                                 *)

\* a row without its two times
Untimed(r) == [r EXCEPT !.start = 0, !.end = 0]

\* the last call of apply_delay named an order without rows
LastNamedNoRows ==
    /\ last_run.called = "apply_delay"
    /\ OrderRows(last_run.pre, last_run.cmd.order_id) = {}

\* C27: the schedule has the rows of the base schedule, row for row the
\* same but for start and end, and a Delay of an order without rows left
\* the schedule as it was
C27_OperationSetPreserved ==
    /\ DOMAIN schedule_df = DOMAIN base_schedule
    /\ \A i \in DOMAIN schedule_df :
          Untimed(schedule_df[i]) = Untimed(base_schedule[i])
    /\ LastNamedNoRows => schedule_df = last_run.pre

\* a Delay and a Swap were applied, and then apply_delay was called for an
\* order without rows; a row is not where the base schedule has it
C27_Witness ==
    /\ LastNamedNoRows
    /\ Accepted("delay_order") # {}
    /\ Accepted("swap_orders") # {}
    /\ \E i \in DOMAIN schedule_df : schedule_df[i].start # base_schedule[i].start

====
